---- MODULE Spec2Model ----
(***************************************************************************)
(* State-machine model of the CAMAC backend layer:                         *)
(*   - CamacBackendNI (camac_backend_win.py): auto-probing N-A-F encoder   *)
(*     sweep over a byte transport, with the cached encoder and the        *)
(*     status-only override set as its persistent state;                   *)
(*   - CamacMock, pack_ext / unpack_ext and the function-code sets         *)
(*     (camacdaq_py/camac_api.py);                                         *)
(*   - CamacVisa3988.cfsa (camacdaq_py/camac_visa_3988.py).                *)
(*   - parse_cit_cfg and DAQSystem (camacdaq_py/config_parser.py,          *)
(*     camacdaq_py/daq_system.py): the module registry and read / write    *)
(*     by module name over the simulator;                                  *)
(*   - the Start / Stop handlers and the MultiPoller thread of qvt_gui.py; *)
(*   - CamacLib.__init__ (camacdaq_py/camac_lib.py): loading the driver.   *)
(* The transport is the environment: every write_raw may raise and every   *)
(* read_bytes may deliver the bytes asked for, fewer, or time out.         *)
(***************************************************************************)
EXTENDS Integers, Sequences, FiniteSets, TLC

VARIABLES
    naf_encoder,   \* CamacBackendNI._naf_encoder: 0 = None, k = k-th candidate
    overrides,     \* CamacBackendNI._expect_status_only_overrides
    ni_call,       \* record of the last CamacBackendNI operation
    mock,          \* CamacMock.state of two simulator instances
    api_call,      \* record of the last camac_api / CamacVisa3988 operation
    modules,       \* DAQSystem.modules: upper-cased name -> ModuleEntry
    cfg_text,      \* the text handed to the last DAQSystem.load_cfg_text, and
                   \* whether the load before it was handed the same text
    daq_call,      \* record of the last DAQSystem operation
    gui,           \* CrystalTestGUI: var_running, poll_stop, poll_thread, handler position
    threads,       \* the MultiPoller threads created so far and their positions
    lib_call,      \* record of the last CamacLib construction
    backend,       \* record of the last CamacBackend construction
    addr_call,     \* record of the last cdreg + cfsa made by a GUI poller
    capture,       \* record of the last sample taken by bin/capture.py
    poller         \* one MultiPoller followed through its run()

vars == <<naf_encoder, overrides, ni_call, mock, api_call,
          modules, cfg_text, daq_call, gui, threads, lib_call,
          backend, addr_call, capture, poller>>

NIFrame == UNCHANGED <<naf_encoder, overrides, ni_call>>
ApiFrame == UNCHANGED <<mock, api_call>>
DaqFrame == UNCHANGED <<modules, cfg_text, daq_call>>
GuiFrame == UNCHANGED <<gui, threads>>
LibFrame == UNCHANGED lib_call
BackendFrame == UNCHANGED backend
AddrFrame == UNCHANGED addr_call
CaptureFrame == UNCHANGED capture
PollerFrame == UNCHANGED poller

\* ------------------------------------------------------------------ bounds
MaxStation == 1
MaxDebug == 1
MaxBranch == 2

\* Python's None (absent data word / argument not supplied)
None == -1

\* --------------------------------------------------------- bit arithmetic
Pow2(k) == 2 ^ k
Shl(x, k) == x * Pow2(k)
Shr(x, k) == x \div Pow2(k)
\* x & (2^k - 1); Python's & on a negative int is the two's complement value
Mask(x, k) == x % Pow2(k)

RECURSIVE BitOr(_, _)
BitOr(x, y) ==
    IF x = 0 THEN y
    ELSE IF y = 0 THEN x
    ELSE (IF (x % 2) = 1 \/ (y % 2) = 1 THEN 1 ELSE 0) + 2 * BitOr(x \div 2, y \div 2)

RECURSIVE BitXor(_, _)
BitXor(x, y) ==
    IF x = 0 THEN y
    ELSE IF y = 0 THEN x
    ELSE (IF (x % 2) = (y % 2) THEN 0 ELSE 1) + 2 * BitXor(x \div 2, y \div 2)

\* int.to_bytes(3, "big") and struct.pack(">I", v)[1:]
Bytes3BE(v) == <<Mask(Shr(v, 16), 8), Mask(Shr(v, 8), 8), Mask(v, 8)>>
Bytes3LE(v) == <<Mask(v, 8), Mask(Shr(v, 8), 8), Mask(Shr(v, 16), 8)>>

\* ================================================================ NI backend
\* cdreg(_ext_unused, n, a, f): the handle is the tuple (n & 0x1F, a & 0x0F, f & 0x1F)
ni_cdreg(ext_unused, n, a, f) == <<Mask(n, 5), Mask(a, 4), Mask(f, 5)>>

naf_cmd(n, a, f) ==
    BitOr(BitOr(Shl(Mask(n, 5), 11), Shl(Mask(a, 4), 7)), Shl(Mask(f, 6), 1))

enc_triplet_big(n, a, f, data, is_read) == Bytes3BE(naf_cmd(n, a, f))
enc_triplet_little(n, a, f, data, is_read) == Bytes3LE(naf_cmd(n, a, f))
enc_triplet_msblow(n, a, f, data, is_read) == enc_triplet_big(n, a, f, data, is_read)
enc_triplet_with_data_header(n, a, f, data, is_read) ==
    <<49>> \o enc_triplet_big(n, a, f, data, is_read)

\* the probe list of cfsa, by position
NumCandidates == 4
Encode(k, n, a, f, data, is_read) ==
    CASE k = 1 -> enc_triplet_big(n, a, f, data, is_read)
      [] k = 2 -> enc_triplet_little(n, a, f, data, is_read)
      [] k = 3 -> enc_triplet_msblow(n, a, f, data, is_read)
      [] k = 4 -> enc_triplet_with_data_header(n, a, f, data, is_read)

needs_data_after_cmd(k) == TRUE

parse_status(b) == <<Mask(b, 1), Mask(Shr(b, 1), 1)>>

IsRead(f) == f < 16

\* faulty variant: the override set is ignored
StatusOnlyIgnored(ovr, f) == FALSE
StatusOnly(ovr, f) == f \in ovr

\* candidates to try: the full list while nothing is cached, else the cached one
\* faulty variant: the full list is swept again although an encoder is cached
CandidatesReprobe(cur) == <<1, 2, 3, 4>>
Candidates(cur) == IF cur = 0 THEN <<1, 2, 3, 4>> ELSE <<cur>>

\* the payload handed to _w for one candidate
Payload(k, c) ==
    LET cmd == Encode(k, c.n, c.a, c.f, c.data, c.is_read)
    IN  IF ~c.is_read /\ needs_data_after_cmd(k)
        THEN cmd \o Bytes3BE(c.data)
        ELSE cmd

\* what dev.read_bytes can deliver through _r(.., tolerate_short=True):
\* the requested bytes, fewer, or b"" after a timeout
DataReads == {<<>>, <<0, 255>>, <<1, 2, 3>>}
MoreReads == {<<>>, <<7>>}
StatusReads == {<<>>, <<1>>, <<2>>}

DataWord(datab) == BitOr(BitOr(Shl(datab[1], 16), Shl(datab[2], 8)), datab[3])

StatusQX(statusb) == IF statusb # <<>> THEN parse_status(statusb[1]) ELSE <<0, 0>>

Att(k, pay, wok, reads) == [cand |-> k, sent |-> pay, wok |-> wok, reads |-> reads]

\* data path of one candidate (lines 80-97) after a successful write
\* faulty variant: the status byte is asked for twice
DataOutcomeTwoStatus(k, pay, d, m, s) ==
    LET short == Len(d) < 3
        datab == IF short THEN d \o m ELSE d
        rd    == IF short THEN <<"data3", "more1">> ELSE <<"data3">>
    IN  IF Len(datab) >= 3
        THEN [ok |-> TRUE, att |-> Att(k, pay, TRUE, rd \o <<"status1", "status1">>),
              ret |-> StatusQX(s) \o <<DataWord(datab)>>]
        ELSE [ok |-> FALSE, att |-> Att(k, pay, TRUE, rd), ret |-> <<0, 0, 0>>]
DataOutcome(k, pay, d, m, s) ==
    LET short == Len(d) < 3
        datab == IF short THEN d \o m ELSE d
        rd    == IF short THEN <<"data3", "more1">> ELSE <<"data3">>
    IN  IF Len(datab) >= 3
        THEN [ok |-> TRUE, att |-> Att(k, pay, TRUE, rd \o <<"status1">>),
              ret |-> StatusQX(s) \o <<DataWord(datab)>>]
        ELSE [ok |-> FALSE, att |-> Att(k, pay, TRUE, rd), ret |-> <<0, 0, 0>>]

\* status-only path of one candidate (lines 99-104) after a successful write
StatusOutcome(k, pay, s) ==
    [ok |-> TRUE, att |-> Att(k, pay, TRUE, <<"status1">>),
     ret |-> StatusQX(s) \o <<None>>]

\* one pass of the try block for candidate k: every outcome the transport allows
Attempt(k, c) ==
    LET pay == Payload(k, c)
    IN  {[ok |-> FALSE, att |-> Att(k, pay, FALSE, <<>>), ret |-> <<0, 0, 0>>]}
        \cup
        (IF c.is_read /\ ~c.status_only
         THEN {DataOutcome(k, pay, d, m, s) : d \in DataReads, m \in MoreReads, s \in StatusReads}
         ELSE {StatusOutcome(k, pay, s) : s \in StatusReads})

\* the result after the loop ran out of candidates (lines 110-116)
AllFailed(c) == IF c.is_read /\ ~c.status_only THEN <<0, 0, 0>> ELSE <<0, 0, None>>

\* faulty variant of the loop: it goes on after a success
RECURSIVE SweepNoStop(_, _, _)
SweepNoStop(cands, c, acc) ==
    IF cands = <<>>
    THEN {[attempts |-> acc, won |-> 0, ret |-> AllFailed(c)]}
    ELSE UNION {
           IF o.ok /\ Len(cands) = 1
           THEN {[attempts |-> Append(acc, o.att), won |-> Head(cands), ret |-> o.ret]}
           ELSE SweepNoStop(Tail(cands), c, Append(acc, o.att))
           : o \in Attempt(Head(cands), c)}

\* the for loop over the candidates: stops at the first success
RECURSIVE Sweep(_, _, _)
Sweep(cands, c, acc) ==
    IF cands = <<>>
    THEN {[attempts |-> acc, won |-> 0, ret |-> AllFailed(c)]}
    ELSE UNION {
           IF o.ok
           THEN {[attempts |-> Append(acc, o.att), won |-> Head(cands), ret |-> o.ret]}
           ELSE Sweep(Tail(cands), c, Append(acc, o.att))
           : o \in Attempt(Head(cands), c)}

\* self._naf_encoder after the call: assigned only on success
\* faulty variant: a failed sweep keeps the last candidate tried
CacheAfterKeepLast(cur, won) ==
    IF won # 0 THEN won ELSE IF cur = 0 THEN NumCandidates ELSE cur
\* faulty variant: a failed call drops the cached encoder
CacheAfterForget(cur, won) == won
CacheAfter(cur, won) == IF won # 0 THEN won ELSE cur

\* cfsa(f, ext, data) in backend state (cur, ovr): the set of possible runs
ni_cfsa(cur, ovr, f, ext, data) ==
    LET c == [f |-> f, n |-> ext[1], a |-> ext[2], data |-> data,
              is_read |-> IsRead(f), status_only |-> StatusOnly(ovr, f)]
    IN  {[op |-> "cfsa", f |-> f, ext |-> ext, data |-> data,
          pre |-> cur, ovr |-> ovr, is_read |-> c.is_read, status_only |-> c.status_only,
          attempts |-> r.attempts, won |-> r.won, ret |-> r.ret, raised |-> FALSE]
         : r \in Sweep(Candidates(cur), c, <<>>)}

\* ------------------------------------------------------------ NI inputs
NIStations == 1 .. MaxStation
NISubaddresses == {1}
\* read, control below 16, write, control above 23, and codes outside 0..31
NIFunctions == {0, 9, 16, 24, 32}
NIData == {0, 66051}

NIInit ==
    /\ naf_encoder = 0
    /\ overrides = {}
    /\ ni_call = [op |-> "init", f |-> 0, ext |-> <<0, 0, 0>>, data |-> 0,
                  pre |-> 0, ovr |-> {}, is_read |-> FALSE, status_only |-> FALSE,
                  attempts |-> <<>>, won |-> 0, ret |-> <<0, 0, None>>, raised |-> FALSE]

\* a cycle through handle ext with the set ovr of overrides in force
NIRun(ovr, f, ext, data, op) ==
    /\ overrides' = ovr
    /\ \E r \in ni_cfsa(naf_encoder, ovr, f, ext, data) :
         /\ naf_encoder' = CacheAfter(naf_encoder, r.won)
         /\ ni_call' = [r EXCEPT !.op = op]
    /\ ApiFrame /\ DaqFrame /\ GuiFrame /\ LibFrame /\ BackendFrame
    /\ AddrFrame /\ CaptureFrame /\ PollerFrame

Cfsa ==
    \E n \in NIStations, a \in NISubaddresses, f \in NIFunctions, data \in NIData :
        /\ (f # 16 => data = 0)
        /\ NIRun(overrides, f, ni_cdreg(0, n, a, 0), data, "cfsa")

Cccc == NIRun(overrides \cup {9}, 9, <<30, 0, 0>>, 0, "cccc")

Cccz == NIRun(overrides \cup {8}, 8, <<30, 0, 0>>, 0, "cccz")

Ccci ==
    \E inhibit \in BOOLEAN :
        NIRun(overrides \cup {16, 17}, IF inhibit THEN 17 ELSE 16, <<30, 0, 0>>, 0, "ccci")

TestLam ==
    \E n \in NIStations : NIRun(overrides, 8, <<Mask(n, 5), 0, 0>>, 0, "test_lam")

ClearLam ==
    \E n \in NIStations : NIRun(overrides \cup {10}, 10, <<Mask(n, 5), 0, 0>>, 0, "clear_lam")

NINext == Cfsa \/ Cccc \/ Cccz \/ Ccci \/ TestLam \/ ClearLam

\* ============================================================== camac_api
READ_FUNCS == 0 .. 7
WRITE_FUNCS == 16 .. 23
\* faulty variant: the upper control range is missing
CTRL_FUNCS_NoHigh == 8 .. 15
CTRL_FUNCS == (8 .. 15) \cup (24 .. 31)

\* faulty variant: the station field is not masked
pack_ext_NoMask(branch, crate, station, address) ==
    BitOr(BitOr(BitOr(Shl(Mask(branch, 8), 24), Shl(Mask(crate, 8), 16)),
                Shl(station, 8)), Mask(address, 8))
pack_ext(branch, crate, station, address) ==
    BitOr(BitOr(BitOr(Shl(Mask(branch, 8), 24), Shl(Mask(crate, 8), 16)),
                Shl(Mask(station, 8), 8)), Mask(address, 8))

unpack_ext(ext) ==
    <<Mask(Shr(ext, 24), 8), Mask(Shr(ext, 16), 8), Mask(Shr(ext, 8), 8), Mask(ext, 8)>>

\* CamacMock.cdreg
mock_cdreg(branch, crate, station, address) == pack_ext(branch, crate, station, address)

\* the branch of CamacMock.cfsa's if / elif chain that a function code takes
FuncClass(function) ==
    IF function \in READ_FUNCS THEN "Read"
    ELSE IF function \in WRITE_FUNCS THEN "Write"
    ELSE IF function \in CTRL_FUNCS THEN "Control"
    ELSE "Invalid"

\* CamacMock.cfsa: (value, Q); st is self.state
\* faulty variants: a wrong shift; a result that depends on the debug level and branch
mock_cfsa_Shift8(st, function, ext, data) ==
    CASE FuncClass(function) = "Read" ->
            <<Mask(BitXor(Mask(ext, 24), Shl(function, 8)), 24), TRUE>>
      [] FuncClass(function) = "Write" -> <<IF data # None THEN data ELSE 0, TRUE>>
      [] FuncClass(function) = "Control" -> <<0, TRUE>>
      [] OTHER -> <<0, FALSE>>
mock_cfsa_Debug(st, function, ext, data) ==
    CASE FuncClass(function) = "Read" ->
            <<Mask(BitXor(Mask(ext, 24), Shl(function, 12)), 24), st.debug = 0>>
      [] FuncClass(function) = "Write" -> <<IF data # None THEN data ELSE 0, TRUE>>
      [] FuncClass(function) = "Control" -> <<st.branch - 1, TRUE>>
      [] OTHER -> <<0, FALSE>>
mock_cfsa(st, function, ext, data) ==
    CASE FuncClass(function) = "Read" ->
            <<Mask(BitXor(Mask(ext, 24), Shl(function, 12)), 24), TRUE>>
      [] FuncClass(function) = "Write" -> <<IF data # None THEN data ELSE 0, TRUE>>
      [] FuncClass(function) = "Control" -> <<0, TRUE>>
      [] OTHER -> <<0, FALSE>>

\* self.state after CamacMock.cfsa: the method assigns nothing
mock_cfsa_state(st, function, ext, data) == st

\* ------------------------------------------------------- CamacVisa3988
VisaWidth == 3

RECURSIVE be_bytes_to_int_acc(_, _)
be_bytes_to_int_acc(buf, v) ==
    IF buf = <<>> THEN Mask(v, 24)
    ELSE be_bytes_to_int_acc(Tail(buf), BitOr(Shl(v, 8), Mask(Head(buf), 8)))
be_bytes_to_int(buf) == be_bytes_to_int_acc(buf, 0)

int_to_be_bytes(val, width) ==
    CASE width = 1 -> <<Mask(val, 8)>>
      [] width = 2 -> <<Mask(Shr(val, 8), 8), Mask(val, 8)>>
      [] OTHER -> <<Mask(Shr(val, 16), 8), Mask(Shr(val, 8), 8), Mask(val, 8)>>

\* what dev.read_bytes(3) can return to CamacVisa3988._read_bytes
VisaReads == {<<1, 2, 3>>, <<9>>}

VisaRun(io, ret, raised) == [io |-> io, ret |-> ret, raised |-> raised]

\* CamacVisa3988.cfsa: the set of possible runs (transport calls, result, error)
visa_cfsa(function, ext, data) ==
    LET n   == Mask(Shr(ext, 8), 8)
        a   == Mask(ext, 8)
        F   == Mask(function, 5)
        naf == <<Mask(n, 5), Mask(a, 5), Mask(F, 5)>>
        w1  == <<"write", naf>>
    IN  IF ~(0 <= n /\ n <= 31 /\ 0 <= a /\ a <= 31 /\ 0 <= F /\ F <= 31)
        THEN {VisaRun(<<>>, <<0, FALSE>>, "ValueError")}
        ELSE {VisaRun(<<w1>>, <<0, FALSE>>, "VisaIOError")}
             \cup
             (IF 0 <= F /\ F <= 7
              THEN {VisaRun(<<w1, <<"read", VisaWidth>>>>, <<0, FALSE>>, "VisaIOError")}
                   \cup {VisaRun(<<w1, <<"read", VisaWidth>>>>, <<be_bytes_to_int(raw), TRUE>>, "none")
                         : raw \in VisaReads}
              ELSE IF 16 <= F /\ F <= 23
              THEN LET val == Mask(IF data = None THEN 0 ELSE data, 24)
                       w2  == <<"write", int_to_be_bytes(val, 3)>>
                   IN  {VisaRun(<<w1, w2>>, <<0, FALSE>>, "VisaIOError"),
                        VisaRun(<<w1, w2>>, <<val, TRUE>>, "none")}
              ELSE {VisaRun(<<w1>>, <<0, TRUE>>, "none")})

\* ------------------------------------------------------------ API inputs
MockIds == {1, 2}
DebugLevels == 0 .. MaxDebug
Branches == 1 .. MaxBranch
MockFunctions == (0 - 1) .. 32
MockHandles == {mock_cdreg(1, 1, 2, 0), mock_cdreg(127, 255, 3, 15)}
MockData == {None, 5}
VisaFunctions == {0, 16, 24, 32, 48, 0 - 1}
VisaHandles == {mock_cdreg(1, 1, 2, 0), mock_cdreg(1, 1, 40, 0)}
BranchArgs == {0, 127, 257}
ByteArgs == {0, 255, 259, 0 - 1}

ApiCall(op, args, pre, ret, io, raised) ==
    [op |-> op, args |-> args, pre |-> pre, ret |-> ret, io |-> io, raised |-> raised]

ApiInit ==
    /\ mock = [i \in MockIds |-> [branch |-> 1, debug |-> 0]]
    /\ api_call = ApiCall("init", <<>>, mock, <<>>, <<>>, "none")

MockSetDebug ==
    \E i \in MockIds, level \in DebugLevels :
        /\ mock' = [mock EXCEPT ![i].debug = level]
        /\ api_call' = ApiCall("set_debug", <<i, level>>, mock, <<>>, <<>>, "none")
        /\ NIFrame /\ DaqFrame /\ GuiFrame /\ LibFrame /\ BackendFrame
        /\ AddrFrame /\ CaptureFrame /\ PollerFrame

MockSetBranch ==
    \E i \in MockIds, branch \in Branches :
        /\ mock' = [mock EXCEPT ![i].branch = branch]
        /\ api_call' = ApiCall("set_branch", <<i, branch>>, mock, <<>>, <<>>, "none")
        /\ NIFrame /\ DaqFrame /\ GuiFrame /\ LibFrame /\ BackendFrame
        /\ AddrFrame /\ CaptureFrame /\ PollerFrame

\* the same cfsa call made on both simulator instances
MockCfsa ==
    \E function \in MockFunctions, ext \in MockHandles, data \in MockData :
        /\ mock' = [i \in MockIds |-> mock_cfsa_state(mock[i], function, ext, data)]
        /\ api_call' = ApiCall("cfsa", <<function, ext, data>>, mock,
                               [i \in MockIds |-> mock_cfsa(mock[i], function, ext, data)]
                                   @@ (3 :> FuncClass(function)),
                               <<>>, "none")
        /\ NIFrame /\ DaqFrame /\ GuiFrame /\ LibFrame /\ BackendFrame
        /\ AddrFrame /\ CaptureFrame /\ PollerFrame

Visa3988Cfsa ==
    \E function \in VisaFunctions, ext \in VisaHandles, data \in MockData :
        \E r \in visa_cfsa(function, ext, data) :
            /\ api_call' = ApiCall("visa_cfsa", <<function, ext, data>>, mock,
                                   <<r.ret>>, r.io, r.raised)
            /\ UNCHANGED mock
            /\ NIFrame /\ DaqFrame /\ GuiFrame /\ LibFrame /\ BackendFrame
            /\ AddrFrame /\ CaptureFrame /\ PollerFrame

\* pack_ext followed by unpack_ext of its result
PackUnpack ==
    \E b \in BranchArgs, c \in ByteArgs, n \in ByteArgs, a \in ByteArgs :
        /\ api_call' = ApiCall("pack", <<b, c, n, a>>, mock,
                               <<pack_ext(b, c, n, a), unpack_ext(pack_ext(b, c, n, a))>>,
                               <<>>, "none")
        /\ UNCHANGED mock
        /\ NIFrame /\ DaqFrame /\ GuiFrame /\ LibFrame /\ BackendFrame
        /\ AddrFrame /\ CaptureFrame /\ PollerFrame

\* ------------------------------------------- config_parser / DAQSystem
\* A text is a sequence of one-character strings.
IsSpace(ch) == ch \in {" ", "\t", "\n"}

\* str.splitlines
RECURSIVE SplitLinesAcc(_, _, _)
SplitLinesAcc(text, cur, acc) ==
    IF text = <<>> THEN (IF cur = <<>> THEN acc ELSE Append(acc, cur))
    ELSE IF Head(text) = "\n" THEN SplitLinesAcc(Tail(text), <<>>, Append(acc, cur))
    ELSE SplitLinesAcc(Tail(text), Append(cur, Head(text)), acc)
splitlines(text) == SplitLinesAcc(text, <<>>, <<>>)

\* str.strip
RECURSIVE lstrip(_)
lstrip(s) == IF s # <<>> /\ IsSpace(Head(s)) THEN lstrip(Tail(s)) ELSE s
RECURSIVE rstrip(_)
rstrip(s) ==
    IF s # <<>> /\ IsSpace(s[Len(s)]) THEN rstrip(SubSeq(s, 1, Len(s) - 1)) ELSE s
strip(s) == rstrip(lstrip(s))

\* line.startswith(("*", "#", "!", ";"))
COMMENT_MARKERS == {"*", "#", "!", ";"}
startswith_marker(line) == line # <<>> /\ Head(line) \in COMMENT_MARKERS

\* re.split(r"\s+", line, maxsplit): cut at the first maxsplit runs of whitespace
RECURSIVE re_split_acc(_, _, _)
re_split_acc(s, maxsplit, cur) ==
    IF s = <<>> THEN <<cur>>
    ELSE IF IsSpace(Head(s)) /\ maxsplit > 0
         THEN <<cur>> \o re_split_acc(lstrip(s), maxsplit - 1, <<>>)
    ELSE re_split_acc(Tail(s), maxsplit, Append(cur, Head(s)))
re_split(s, maxsplit) == re_split_acc(s, maxsplit, <<>>)

\* int(str): an optional sign and decimal digits, ValueError otherwise
DIGITS == <<"0", "1", "2", "3", "4", "5", "6", "7", "8", "9">>
IsDigit(ch) == \E i \in 1..10 : DIGITS[i] = ch
DigitVal(ch) == (CHOOSE i \in 1..10 : DIGITS[i] = ch) - 1
RECURSIVE digits_value(_, _)
digits_value(s, v) == IF s = <<>> THEN v ELSE digits_value(Tail(s), 10 * v + DigitVal(Head(s)))
int_ok(s) ==
    LET body == IF s # <<>> /\ Head(s) \in {"+", "-"} THEN Tail(s) ELSE s
    IN  body # <<>> /\ \A i \in 1..Len(body) : IsDigit(body[i])
int_value(s) ==
    IF Head(s) = "-" THEN 0 - digits_value(Tail(s), 0)
    ELSE IF Head(s) = "+" THEN digits_value(Tail(s), 0)
    ELSE digits_value(s, 0)

\* str.upper
LOWER == <<"a", "b", "c", "d", "e", "f", "g", "h", "i", "j", "k", "l", "m",
           "n", "o", "p", "q", "r", "s", "t", "u", "v", "w", "x", "y", "z">>
UPPER == <<"A", "B", "C", "D", "E", "F", "G", "H", "I", "J", "K", "L", "M",
           "N", "O", "P", "Q", "R", "S", "T", "U", "V", "W", "X", "Y", "Z">>
upper_ch(ch) ==
    IF \E i \in 1..26 : LOWER[i] = ch THEN UPPER[CHOOSE i \in 1..26 : LOWER[i] = ch] ELSE ch
upper(s) == [i \in 1..Len(s) |-> upper_ch(s[i])]

\* ModuleEntry; an absent comment (None) is the empty tuple, a comment c is <<c>>
ModuleEntry(name, branch, crate, station, comment) ==
    [name |-> name, branch |-> branch, crate |-> crate, station |-> station,
     comment |-> comment]

\* entries[key] = entry
dict_set(entries, key, entry) ==
    [k \in (DOMAIN entries) \cup {key} |-> IF k = key THEN entry ELSE entries[k]]

\* one iteration of parse_cit_cfg's loop over the lines
parse_line_KeepFirst(entries, raw) ==
    LET line == strip(raw)
        parts == re_split(line, 4)
    IN  IF line = <<>> \/ startswith_marker(line) THEN entries
        ELSE IF Len(parts) < 4 THEN entries
        ELSE IF ~(int_ok(parts[2]) /\ int_ok(parts[3]) /\ int_ok(parts[4])) THEN entries
        ELSE IF upper(parts[1]) \in DOMAIN entries THEN entries
        ELSE dict_set(entries, upper(parts[1]),
                      ModuleEntry(parts[1], int_value(parts[2]), int_value(parts[3]),
                                  int_value(parts[4]),
                                  IF Len(parts) >= 5 THEN <<parts[5]>> ELSE <<>>))
parse_line_Abort(entries, raw) ==
    LET line == strip(raw)
        parts == re_split(line, 4)
    IN  IF line = <<>> \/ startswith_marker(line) THEN entries
        ELSE IF Len(parts) < 4 THEN entries
        ELSE IF ~(int_ok(parts[2]) /\ int_ok(parts[3]) /\ int_ok(parts[4])) THEN <<>>
        ELSE dict_set(entries, upper(parts[1]),
                      ModuleEntry(parts[1], int_value(parts[2]), int_value(parts[3]),
                                  int_value(parts[4]),
                                  IF Len(parts) >= 5 THEN <<parts[5]>> ELSE <<>>))
parse_line(entries, raw) ==
    LET line == strip(raw)
        parts == re_split(line, 4)
    IN  IF line = <<>> \/ startswith_marker(line) THEN entries
        ELSE IF Len(parts) < 4 THEN entries
        ELSE IF ~(int_ok(parts[2]) /\ int_ok(parts[3]) /\ int_ok(parts[4])) THEN entries
        ELSE dict_set(entries, upper(parts[1]),
                      ModuleEntry(parts[1], int_value(parts[2]), int_value(parts[3]),
                                  int_value(parts[4]),
                                  IF Len(parts) >= 5 THEN <<parts[5]>> ELSE <<>>))

RECURSIVE parse_lines(_, _)
parse_lines(lines, entries) ==
    IF lines = <<>> THEN entries
    ELSE parse_lines(Tail(lines), parse_line(entries, Head(lines)))

\* parse_cit_cfg: a dict from upper-cased name to ModuleEntry (<<>> is the empty dict)
parse_cit_cfg(text) == parse_lines(splitlines(text), <<>>)

\* DAQSystem.load_cfg_text: the new value of self.modules
load_cfg_text_Merge(old, text) ==
    LET parsed == parse_cit_cfg(text)
    IN  [k \in (DOMAIN old) \cup (DOMAIN parsed) |->
            IF k \in DOMAIN parsed THEN parsed[k] ELSE old[k]]
load_cfg_text(old, text) ==
    LET parsed == parse_cit_cfg(text)
    IN  [name \in DOMAIN parsed |-> parsed[name]]

\* ------------------------------------------------ configuration texts
\* Lines drawn for the texts. Each carries its kind ("entry": four or five
\* blank-separated fields with integer branch, crate and station; "comma": the
\* fields separated by commas), the name as written, the name in upper case
\* and the three integers.
CoreLines == <<
    [chars |-> <<"Q", "V", " ", "1", " ", "1", " ", "2">>,
     kind |-> "entry", name |-> <<"Q", "V">>, key |-> <<"Q", "V">>,
     branch |-> 1, crate |-> 1, station |-> 2, comment |-> <<>>],
    [chars |-> <<"q", "v", " ", "2", " ", "1", " ", "3", " ", "x", " ", "y">>,
     kind |-> "entry", name |-> <<"q", "v">>, key |-> <<"Q", "V">>,
     branch |-> 2, crate |-> 1, station |-> 3, comment |-> <<<<"x", " ", "y">>>>],
    [chars |-> <<"G", "e", "\t", "1", " ", " ", "2", " ", "9">>,
     kind |-> "entry", name |-> <<"G", "e">>, key |-> <<"G", "E">>,
     branch |-> 1, crate |-> 2, station |-> 9, comment |-> <<>>],
    [chars |-> <<"A", " ", "1", " ", "z", " ", "4">>,
     kind |-> "nonint", name |-> <<>>, key |-> <<>>,
     branch |-> 0, crate |-> 0, station |-> 0, comment |-> <<>>]>>
EdgeLines == <<
    [chars |-> <<"#", " ", "G", " ", "1", " ", "1", " ", "9">>,
     kind |-> "comment", name |-> <<>>, key |-> <<>>,
     branch |-> 0, crate |-> 0, station |-> 0, comment |-> <<>>],
    [chars |-> <<" ", ";", "x", " ", "1", " ", "1", " ", "1">>,
     kind |-> "comment", name |-> <<>>, key |-> <<>>,
     branch |-> 0, crate |-> 0, station |-> 0, comment |-> <<>>],
    [chars |-> <<"*", "c", " ", "1", " ", "1", " ", "1">>,
     kind |-> "comment", name |-> <<>>, key |-> <<>>,
     branch |-> 0, crate |-> 0, station |-> 0, comment |-> <<>>],
    [chars |-> <<"!", "c", " ", "1", " ", "1", " ", "1">>,
     kind |-> "comment", name |-> <<>>, key |-> <<>>,
     branch |-> 0, crate |-> 0, station |-> 0, comment |-> <<>>],
    [chars |-> <<" ", " ">>,
     kind |-> "blank", name |-> <<>>, key |-> <<>>,
     branch |-> 0, crate |-> 0, station |-> 0, comment |-> <<>>],
    [chars |-> <<>>,
     kind |-> "blank", name |-> <<>>, key |-> <<>>,
     branch |-> 0, crate |-> 0, station |-> 0, comment |-> <<>>],
    [chars |-> <<"T", " ", "1", " ", "1">>,
     kind |-> "short", name |-> <<>>, key |-> <<>>,
     branch |-> 0, crate |-> 0, station |-> 0, comment |-> <<>>],
    [chars |-> <<"B", " ", "x", " ", "1", " ", "1">>,
     kind |-> "nonint", name |-> <<>>, key |-> <<>>,
     branch |-> 0, crate |-> 0, station |-> 0, comment |-> <<>>],
    [chars |-> <<"C", " ", "1", " ", "1", " ", "2", ".", "5">>,
     kind |-> "nonint", name |-> <<>>, key |-> <<>>,
     branch |-> 0, crate |-> 0, station |-> 0, comment |-> <<>>],
    [chars |-> <<"D", ",", "1", ",", "1", ",", "5">>,
     kind |-> "comma", name |-> <<"D">>, key |-> <<"D">>,
     branch |-> 1, crate |-> 1, station |-> 5, comment |-> <<>>],
    [chars |-> <<"D", " ", "1", " ", "1", " ", "5">>,
     kind |-> "entry", name |-> <<"D">>, key |-> <<"D">>,
     branch |-> 1, crate |-> 1, station |-> 5, comment |-> <<>>],
    [chars |-> <<" ", "S", " ", "1", " ", "-", "1", " ", "+", "0", "7", " ", "\t">>,
     kind |-> "entry", name |-> <<"S">>, key |-> <<"S">>,
     branch |-> 1, crate |-> 0 - 1, station |-> 7, comment |-> <<>>]>>
AllLines == CoreLines \o EdgeLines
CoreIdx == 1..Len(CoreLines)
EdgeIdx == (Len(CoreLines) + 1)..Len(AllLines)

MaxLines == 2

\* a text is named by the indices of its lines
CfgTexts ==
    UNION {[1..k -> CoreIdx] : k \in 0..MaxLines}
        \cup UNION {{<<e>>, <<1, e>>, <<e, 1>>} : e \in EdgeIdx}
DaqTexts == {<<>>, <<1>>, <<1, 2>>, <<2, 1>>, <<3, 4, 1>>, <<14, 3>>}

RECURSIVE TextOf(_)
TextOf(ix) ==
    IF ix = <<>> THEN <<>>
    ELSE IF Len(ix) = 1 THEN AllLines[ix[1]].chars
    ELSE AllLines[ix[1]].chars \o <<"\n">> \o TextOf(Tail(ix))

DaqNames == {<<"Q", "V">>, <<"q", "v">>, <<"Q", "v">>, <<"q", "V">>,
             <<"g", "E">>, <<"A">>, <<"z", "z">>}
DaqAddresses == {0, 255}
DaqReadFunctions == (0..7) \cup {None}
DaqWriteFunctions == {16}
DaqData == {5}

\* pre: the registry before a read or write, the registry's keys before a load
DaqCall(op, name, address, function, data, pre, r) ==
    [op |-> op, name |-> name, address |-> address, function |-> function,
     data |-> data, pre |-> pre, ret |-> r.ret, raised |-> r.raised,
     backend |-> r.backend]

\* DAQSystem._ext_for on a CamacBackend in mock mode
ext_for_CdregFirst(mods, name, address) ==
    IF upper(name) \notin DOMAIN mods
    THEN [raised |-> "KeyError", ext |-> 0,
          backend |-> <<<<"cdreg", 0, 0, 0, address>>>>]
    ELSE LET me == mods[upper(name)]
         IN  [raised |-> "none",
              ext |-> mock_cdreg(me.branch, me.crate, me.station, address),
              backend |-> <<<<"cdreg", me.branch, me.crate, me.station, address>>>>]
ext_for(mods, name, address) ==
    IF upper(name) \notin DOMAIN mods
    THEN [raised |-> "KeyError", ext |-> 0, backend |-> <<>>]
    ELSE LET me == mods[upper(name)]
         IN  [raised |-> "none",
              ext |-> mock_cdreg(me.branch, me.crate, me.station, address),
              backend |-> <<<<"cdreg", me.branch, me.crate, me.station, address>>>>]

\* DAQSystem.camac_read; function = None stands for the omitted argument
camac_read_NoDefault(mods, st, name, address, function) ==
    LET e == ext_for(mods, name, address)
        f == IF function = None THEN 1 ELSE function
    IN  IF e.raised # "none" THEN [ret |-> <<>>, raised |-> e.raised, backend |-> e.backend]
        ELSE [ret |-> mock_cfsa(st, f, e.ext, None), raised |-> "none",
              backend |-> e.backend \o <<<<"cfsa", f, e.ext, None>>>>]
camac_read(mods, st, name, address, function) ==
    LET e == ext_for(mods, name, address)
        f == IF function = None THEN 0 ELSE function
    IN  IF e.raised # "none" THEN [ret |-> <<>>, raised |-> e.raised, backend |-> e.backend]
        ELSE [ret |-> mock_cfsa(st, f, e.ext, None), raised |-> "none",
              backend |-> e.backend \o <<<<"cfsa", f, e.ext, None>>>>]

\* DAQSystem.camac_write
camac_write(mods, st, name, address, function, data) ==
    LET e == ext_for(mods, name, address)
    IN  IF e.raised # "none" THEN [ret |-> <<>>, raised |-> e.raised, backend |-> e.backend]
        ELSE [ret |-> <<mock_cfsa(st, function, e.ext, data)[2]>>, raised |-> "none",
              backend |-> e.backend \o <<<<"cfsa", function, e.ext, data>>>>]

DaqInit ==
    /\ modules = <<>>
    /\ cfg_text = [lines |-> <<>>, text |-> <<>>, loaded |-> FALSE, again |-> FALSE]
    /\ daq_call = DaqCall("init", <<>>, 0, 0, 0, {},
                          [ret |-> <<>>, raised |-> "none", backend |-> <<>>])

LoadCfgText(texts) ==
    \E ix \in texts :
        /\ modules' = load_cfg_text(modules, TextOf(ix))
        /\ cfg_text' = [lines |-> ix, text |-> TextOf(ix), loaded |-> TRUE,
                        again |-> cfg_text.loaded /\ cfg_text.text = TextOf(ix)]
        /\ daq_call' = DaqCall("load_cfg_text", <<>>, 0, 0, 0, DOMAIN modules,
                               [ret |-> <<>>, raised |-> "none", backend |-> <<>>])
        /\ NIFrame /\ ApiFrame /\ GuiFrame /\ LibFrame /\ BackendFrame
        /\ AddrFrame /\ CaptureFrame /\ PollerFrame

LoadCfg == LoadCfgText(CfgTexts)
LoadDaq == LoadCfgText(DaqTexts)

CamacRead ==
    \E name \in DaqNames, address \in DaqAddresses, function \in DaqReadFunctions :
        /\ daq_call' = DaqCall("camac_read", name, address, function, None, modules,
                               camac_read(modules, mock[1], name, address, function))
        /\ UNCHANGED <<modules, cfg_text>>
        /\ NIFrame /\ ApiFrame /\ GuiFrame /\ LibFrame /\ BackendFrame
        /\ AddrFrame /\ CaptureFrame /\ PollerFrame

CamacWrite ==
    \E name \in DaqNames, address \in DaqAddresses, function \in DaqWriteFunctions,
       data \in DaqData :
        /\ daq_call' = DaqCall("camac_write", name, address, function, data, modules,
                               camac_write(modules, mock[1], name, address, function, data))
        /\ UNCHANGED <<modules, cfg_text>>
        /\ NIFrame /\ ApiFrame /\ GuiFrame /\ LibFrame /\ BackendFrame
        /\ AddrFrame /\ CaptureFrame /\ PollerFrame

CfgNext == LoadCfg
DaqNext == LoadDaq \/ CamacRead \/ CamacWrite

\* ------------------------------------------- qvt_gui.py: Start / Stop
\* The Tk main loop runs one handler at a time; the MultiPoller threads run
\* beside it. Thread.join(timeout=1.0) blocks the handler while the pollers
\* go on, so _stop_poll is two steps: up to the join, and the join's return.
MaxThreads == 2
MaxPairs == 2

Alive(t) == threads[t].pc # "done"
InCfsa(t) == threads[t].pc = "cfsa"

GuiInit ==
    /\ gui = [var_running |-> FALSE, poll_stop |-> FALSE, poll_thread |-> 0,
              pc |-> "idle"]
    /\ threads = <<>>

\* on_start_stop with var_running false: clear the event, create and start a
\* MultiPoller; has_ext tells whether cdreg gave it a handle, told whether
\* a Stop has set the event for this thread
OnStart ==
    /\ gui.pc = "idle" /\ ~gui.var_running
    /\ Len(threads) < MaxThreads
    /\ \E has_ext \in BOOLEAN :
          threads' = Append(threads, [pc |-> "test", idx |-> 0, has_ext |-> has_ext,
                                      told |-> FALSE])
    /\ gui' = [gui EXCEPT !.poll_stop = FALSE, !.poll_thread = Len(threads) + 1,
                          !.var_running = TRUE]
    /\ NIFrame /\ ApiFrame /\ DaqFrame /\ LibFrame /\ BackendFrame
    /\ AddrFrame /\ CaptureFrame /\ PollerFrame

\* on_start_stop with var_running true (the button, or _tick_timer when the
\* run time has elapsed), up to _stop_poll's join
OnStop ==
    /\ gui.pc = "idle" /\ gui.var_running
    /\ IF gui.poll_thread # 0 /\ Alive(gui.poll_thread)
       THEN /\ gui' = [gui EXCEPT !.poll_stop = TRUE, !.pc = "joining"]
            /\ threads' = [threads EXCEPT ![gui.poll_thread].told = TRUE]
       ELSE /\ gui' = [gui EXCEPT !.poll_thread = 0, !.var_running = FALSE]
            /\ UNCHANGED threads
    /\ NIFrame /\ ApiFrame /\ DaqFrame /\ LibFrame /\ BackendFrame
    /\ AddrFrame /\ CaptureFrame /\ PollerFrame

\* join returns, the thread having ended or the second having passed; the
\* handler then forgets the thread and finishes
JoinReturn ==
    /\ gui.pc = "joining"
    /\ gui' = [gui EXCEPT !.poll_thread = 0, !.var_running = FALSE, !.pc = "idle"]
    /\ UNCHANGED threads
    /\ NIFrame /\ ApiFrame /\ DaqFrame /\ LibFrame /\ BackendFrame
    /\ AddrFrame /\ CaptureFrame /\ PollerFrame

\* MultiPoller.run: the loop test and the choice of the next (A, F) pair
PollTestOf(t) ==
    /\ threads[t].pc = "test"
    /\ threads' = [threads EXCEPT ![t] =
          IF gui.poll_stop THEN [@ EXCEPT !.pc = "done"]
          ELSE [@ EXCEPT !.idx = (@ + 1) % MaxPairs,
                         !.pc = IF threads[t].has_ext THEN "cfsa" ELSE "sleep"]]
    /\ UNCHANGED gui
    /\ NIFrame /\ ApiFrame /\ DaqFrame /\ LibFrame /\ BackendFrame
    /\ AddrFrame /\ CaptureFrame /\ PollerFrame

\* self.cam.cfsa(f, ext) returns or raises
PollCfsaReturnOf(t) ==
    /\ threads[t].pc = "cfsa"
    /\ threads' = [threads EXCEPT ![t].pc = "sleep"]
    /\ UNCHANGED gui
    /\ NIFrame /\ ApiFrame /\ DaqFrame /\ LibFrame /\ BackendFrame
    /\ AddrFrame /\ CaptureFrame /\ PollerFrame

\* time.sleep(self.interval_s) returns
PollSleepReturnOf(t) ==
    /\ threads[t].pc = "sleep"
    /\ threads' = [threads EXCEPT ![t].pc = "test"]
    /\ UNCHANGED gui
    /\ NIFrame /\ ApiFrame /\ DaqFrame /\ LibFrame /\ BackendFrame
    /\ AddrFrame /\ CaptureFrame /\ PollerFrame

PollTest == \E t \in DOMAIN threads : PollTestOf(t)
PollCfsaReturn == \E t \in DOMAIN threads : PollCfsaReturnOf(t)
PollSleepReturn == \E t \in DOMAIN threads : PollSleepReturnOf(t)

GuiNext ==
    OnStart \/ OnStop \/ JoinReturn \/ PollTest \/ PollCfsaReturn \/ PollSleepReturn

\* ------------------------------------------------ camac_lib.py: CamacLib
\* An absent path (None, or the empty string, both false in Python) is "".
Platforms == {"win32", "darwin", "linux"}
default_names(platform) ==
    IF platform = "win32" THEN <<"libcamac_gpib.dll", "camac_gpib.dll", "camac.dll">>
    ELSE IF platform = "darwin" THEN <<"libcamac_gpib.dylib", "libcamac.dylib">>
    ELSE <<"libcamac_gpib.so", "libcamac.so">>

\* the candidates list of CamacLib.__init__
lib_candidates(platform, lib_path, env) ==
    LET path == IF lib_path # "" THEN lib_path ELSE env
    IN  IF path # "" THEN <<path>> ELSE default_names(platform)

\* the loop over the candidates: ctypes.CDLL(cand) returns for the names in
\* loadable and raises OSError for the others
RECURSIVE try_load_NoBreak(_, _, _, _)
try_load_NoBreak(cands, loadable, attempts, lib) ==
    IF cands = <<>> THEN [lib |-> lib, attempts |-> attempts]
    ELSE try_load_NoBreak(Tail(cands), loadable, Append(attempts, Head(cands)),
                          IF Head(cands) \in loadable THEN Head(cands) ELSE lib)
RECURSIVE try_load(_, _, _, _)
try_load(cands, loadable, attempts, lib) ==
    IF cands = <<>> THEN [lib |-> lib, attempts |-> attempts]
    ELSE IF Head(cands) \in loadable
         THEN [lib |-> Head(cands), attempts |-> Append(attempts, Head(cands))]
    ELSE try_load(Tail(cands), loadable, Append(attempts, Head(cands)), lib)

\* CamacLib.__init__; symbols tells whether the loaded library has cdset,
\* cdreg and cfsa (ctypes raises AttributeError for a missing one)
CamacLib_init(platform, lib_path, env, loadable, symbols) ==
    LET candidates == lib_candidates(platform, lib_path, env)
        r == try_load(candidates, loadable, <<>>, "")
    IN  [platform |-> platform, lib_path |-> lib_path, env |-> env,
         loadable |-> loadable, symbols |-> symbols,
         attempts |-> r.attempts, lib |-> r.lib,
         raised |-> IF r.lib = "" THEN "CamacLibError"
                    ELSE IF ~symbols THEN "AttributeError" ELSE "none",
         tried |-> IF r.lib = "" THEN candidates ELSE <<>>]

Range(s) == {s[i] : i \in 1..Len(s)}
LibPaths == {"", "/opt/libcamac.so"}
EnvPaths == {"", "/env/libcamac.so"}

LibInit ==
    lib_call = [platform |-> "linux", lib_path |-> "", env |-> "", loadable |-> {},
                symbols |-> FALSE, attempts |-> <<>>, lib |-> "", raised |-> "init",
                tried |-> <<>>]

\* the files that load are any of the platform's default names and of the
\* paths given
CamacLibInit ==
    \E platform \in Platforms, lib_path \in LibPaths, env \in EnvPaths,
       symbols \in BOOLEAN :
        \E loadable \in SUBSET (Range(default_names(platform))
                                    \cup ({lib_path, env} \ {""})) :
            /\ lib_call' = CamacLib_init(platform, lib_path, env, loadable, symbols)
            /\ NIFrame /\ ApiFrame /\ DaqFrame /\ GuiFrame /\ BackendFrame
            /\ AddrFrame /\ CaptureFrame /\ PollerFrame

LibNext == CamacLibInit

\* -------------------------------- qvt_gui.py: the poller's addressing
\* make_backend: mode "ni" gives a CamacBackendNI, the other modes a
\* CamacBackend over the simulator or the VISA controller (the native
\* driver's cdreg is outside the repository).
GuiModes == {"mock", "visa", "ni"}

\* CamacVisa3988.cdreg
visa3988_cdreg(branch, crate, station, address) ==
    BitOr(BitOr(BitOr(Shl(Mask(branch, 8), 24), Shl(Mask(crate, 8), 16)),
                Shl(Mask(station, 8), 8)), Mask(address, 8))

\* MultiPoller.__init__: self._ext[a] = self.cam.cdreg(b, c, n, a); the four
\* arguments are positional, CamacBackendNI.cdreg takes them as
\* (_ext_unused, n, a, f)
poller_cdreg(mode, b, c, n, a) ==
    IF mode = "ni" THEN ni_cdreg(b, c, n, a)
    ELSE IF mode = "visa" THEN <<visa3988_cdreg(b, c, n, a)>>
    ELSE <<mock_cdreg(b, c, n, a)>>

\* the station and subaddress the cfsa cycle takes from the handle
cfsa_station(mode, ext) == IF mode = "ni" THEN ext[1] ELSE unpack_ext(ext[1])[3]
cfsa_subaddress(mode, ext) == IF mode = "ni" THEN ext[2] ELSE unpack_ext(ext[1])[4]

AddrBranches == {1}
AddrCrates == {1, 2, 3}
AddrStations == {2, 5, 23}
AddrSubaddresses == {0, 1, 15}
AddrFunctions == {0, 2}

AddrInit ==
    addr_call = [op |-> "init", mode |-> "mock", bcn |-> <<0, 0, 0>>, a |-> 0, f |-> 0,
                 ext |-> <<>>, station |-> 0, subaddress |-> 0]

\* one poll of (a, f) on a module configured as (b, c, n)
PollAddress ==
    \E mode \in GuiModes, b \in AddrBranches, c \in AddrCrates, n \in AddrStations,
       a \in AddrSubaddresses, f \in AddrFunctions :
        LET ext == poller_cdreg(mode, b, c, n, a)
        IN  /\ addr_call' = [op |-> "poll", mode |-> mode, bcn |-> <<b, c, n>>, a |-> a,
                             f |-> f, ext |-> ext,
                             station |-> cfsa_station(mode, ext),
                             subaddress |-> cfsa_subaddress(mode, ext)]
            /\ NIFrame /\ ApiFrame /\ DaqFrame /\ GuiFrame /\ LibFrame
            /\ BackendFrame /\ CaptureFrame /\ PollerFrame

AddrNext == PollAddress

\* ------------------------------------- camac_backend.py: CamacBackend
\* impl "" is None. lib is the outcome of CamacLib(lib_path); has_visa says
\* whether pyvisa and CamacVisa3988 could be imported, visa_opens whether
\* CamacVisa3988(resource) returns.
BackendModes == {"mock", "visa", "real", "auto", "ni", ""}

CamacBackend_init_AutoRaises(mode, lib, has_visa, visa_opens) ==
    IF mode = "mock" THEN [impl |-> "CamacMock", raised |-> "none"]
    ELSE IF mode = "visa" THEN
        IF ~has_visa THEN [impl |-> "", raised |-> "RuntimeError"]
        ELSE IF ~visa_opens THEN [impl |-> "", raised |-> "VisaError"]
        ELSE [impl |-> "CamacVisa3988", raised |-> "none"]
    ELSE IF mode \in {"real", "auto"} THEN
        IF lib.raised = "none" THEN [impl |-> "CamacLib", raised |-> "none"]
        ELSE [impl |-> "", raised |-> lib.raised]
    ELSE [impl |-> "", raised |-> "ValueError"]
CamacBackend_init(mode, lib, has_visa, visa_opens) ==
    IF mode = "mock" THEN [impl |-> "CamacMock", raised |-> "none"]
    ELSE IF mode = "visa" THEN
        IF ~has_visa THEN [impl |-> "", raised |-> "RuntimeError"]
        ELSE IF ~visa_opens THEN [impl |-> "", raised |-> "VisaError"]
        ELSE [impl |-> "CamacVisa3988", raised |-> "none"]
    ELSE IF mode \in {"real", "auto"} THEN
        IF lib.raised = "none" THEN [impl |-> "CamacLib", raised |-> "none"]
        ELSE IF lib.raised = "CamacLibError" THEN
            IF mode = "real" THEN [impl |-> "", raised |-> "CamacLibError"]
            ELSE [impl |-> "CamacMock", raised |-> "none"]
        ELSE [impl |-> "", raised |-> lib.raised]
    ELSE [impl |-> "", raised |-> "ValueError"]

BackendInit ==
    backend = [op |-> "init", mode |-> "", lib_path |-> "", loadable |-> {},
               symbols |-> FALSE, has_visa |-> FALSE, visa_opens |-> FALSE,
               lib_raised |-> "none", impl |-> "", raised |-> "none"]

CamacBackendInit ==
    \E mode \in BackendModes, lib_path \in LibPaths, symbols \in BOOLEAN,
       has_visa \in BOOLEAN, visa_opens \in BOOLEAN :
        \E loadable \in SUBSET (Range(default_names("linux")) \cup ({lib_path} \ {""})) :
            LET lib == CamacLib_init("linux", lib_path, "", loadable, symbols)
                r == CamacBackend_init(mode, lib, has_visa, visa_opens)
            IN  /\ backend' = [op |-> "CamacBackend", mode |-> mode,
                               lib_path |-> lib_path, loadable |-> loadable,
                               symbols |-> symbols, has_visa |-> has_visa,
                               visa_opens |-> visa_opens, lib_raised |-> lib.raised,
                               impl |-> r.impl, raised |-> r.raised]
                /\ NIFrame /\ ApiFrame /\ DaqFrame /\ GuiFrame /\ LibFrame
                /\ AddrFrame /\ CaptureFrame /\ PollerFrame

BackendNext == CamacBackendInit

\* ------------------------------------- bin/daq.py read, bin/capture.py
\* str(int), format(int, "X"), str(bool)
RECURSIVE str_int(_)
str_int(n) ==
    IF n < 0 THEN <<"-">> \o str_int(0 - n)
    ELSE IF n < 10 THEN <<DIGITS[n + 1]>>
    ELSE str_int(n \div 10) \o <<DIGITS[(n % 10) + 1]>>
HEXDIGITS == DIGITS \o <<"A", "B", "C", "D", "E", "F">>
RECURSIVE format_X(_)
format_X(n) ==
    IF n < 0 THEN <<"-">> \o format_X(0 - n)
    ELSE IF n < 16 THEN <<HEXDIGITS[n + 1]>>
    ELSE format_X(n \div 16) \o <<HEXDIGITS[(n % 16) + 1]>>
str_bool(q) == IF q THEN <<"T", "r", "u", "e">> ELSE <<"F", "a", "l", "s", "e">>

\* print(f"Data={data} (0x{data:X})  Q={q}")
daq_print_read(data, q) ==
    <<"D", "a", "t", "a", "=">> \o str_int(data) \o <<" ", "(", "0", "x">> \o format_X(data)
        \o <<")", " ", " ", "Q", "=">> \o str_bool(q) \o <<"\n">>

\* daq.py main, sub-command read, as the subprocess capture.py starts: a
\* fresh backend, the registry loaded from the file, one read. An uncaught
\* exception ends the process with status 1 and nothing on stdout. No driver
\* library and no pyvisa are installed.
daq_main_read(mode, text, name, address, function) ==
    LET cam == CamacBackend_init(mode, CamacLib_init("linux", "", "", {}, FALSE),
                                 FALSE, FALSE)
        mods == load_cfg_text(<<>>, text)
        r == camac_read(mods, [branch |-> 1, debug |-> 0], name, address, function)
    IN  IF cam.raised # "none" THEN [returncode |-> 1, stdout |-> <<>>, data |-> <<>>]
        ELSE IF r.raised # "none" THEN [returncode |-> 1, stdout |-> <<>>, data |-> <<>>]
        ELSE [returncode |-> 0, stdout |-> daq_print_read(r.ret[1], r.ret[2]),
              data |-> <<r.ret[1]>>]

\* capture.run_read on the finished subprocess p: <<value>> or the exception
run_read(p) ==
    IF p.returncode # 0 THEN [ret |-> <<>>, raised |-> "RuntimeError"]
    ELSE IF int_ok(strip(p.stdout))
         THEN [ret |-> <<int_value(strip(p.stdout))>>, raised |-> "none"]
    ELSE [ret |-> <<>>, raised |-> "ValueError"]

\* the value column of the CSV row in capture.main: <<>> is the blank ""
row_value(p) == IF run_read(p).raised # "none" THEN <<>> ELSE run_read(p).ret

CaptureModes == {"mock", "real", "auto"}
CaptureTexts == {<<>>, <<1>>, <<3, 4, 1>>}
CaptureNames == {<<"Q", "V">>, <<"q", "v">>, <<"z", "z">>}
CaptureAddresses == {0, 255}
CaptureFunctions == {0, 1, 16}

CaptureInit ==
    capture = [op |-> "init", mode |-> "mock", text |-> <<>>, name |-> <<>>,
               address |-> 0, function |-> 0, returncode |-> 0, stdout |-> <<>>,
               data |-> <<>>, raised |-> "none", value |-> <<>>]

\* one pass of the loop in capture.main
CaptureSample ==
    \E mode \in CaptureModes, ix \in CaptureTexts, name \in CaptureNames,
       address \in CaptureAddresses, function \in CaptureFunctions :
        LET p == daq_main_read(mode, TextOf(ix), name, address, function)
        IN  /\ capture' = [op |-> "sample", mode |-> mode, text |-> ix, name |-> name,
                           address |-> address, function |-> function,
                           returncode |-> p.returncode, stdout |-> p.stdout,
                           data |-> p.data, raised |-> run_read(p).raised,
                           value |-> row_value(p)]
            /\ NIFrame /\ ApiFrame /\ DaqFrame /\ GuiFrame /\ LibFrame
            /\ AddrFrame /\ BackendFrame /\ PollerFrame

CaptureNext == CaptureSample

\* ----------------------------------- qvt_gui.py: one MultiPoller in detail
\* pairs = [(a, f) for a in self.addrs for f in self.funcs]
\* faulty variant: functions outer, addresses inner
RECURSIVE pairs_FunctionsOuter(_, _)
pairs_FunctionsOuter(addrs, funcs) ==
    IF funcs = <<>> THEN <<>>
    ELSE [i \in 1..Len(addrs) |-> <<addrs[i], Head(funcs)>>]
            \o pairs_FunctionsOuter(addrs, Tail(funcs))
RECURSIVE pairs(_, _)
pairs(addrs, funcs) ==
    IF addrs = <<>> THEN <<>>
    ELSE [j \in 1..Len(funcs) |-> <<Head(addrs), funcs[j]>>] \o pairs(Tail(addrs), funcs)

\* the address and function lists of the Settings dialog (any integers,
\* repeats included) and of the check boxes of bin/qvt_gui.py
PollerAddrs == {<<0>>, <<0, 1>>, <<1, 0, 2>>, <<0, 1, 0>>}
PollerFuncs == {<<0>>, <<0, 2>>}

\* the last n elements of s
LastN(s, n) == IF Len(s) <= n THEN s ELSE SubSeq(s, Len(s) - n + 1, Len(s))

PollerInit ==
    poller = [pc |-> "init", bin |-> FALSE, addrs |-> <<>>, funcs |-> <<>>, ext |-> {},
              idx |-> 0, stop |-> FALSE, hist |-> <<>>, msg |-> "none"]

\* MultiPoller(...) and the head of run(): ext is the set of addresses for
\* which cdreg returned a handle; bin tells the bin/qvt_gui.py version, whose
\* run() returns at once when no handle was resolved
MultiPollerStart ==
    /\ poller.pc \in {"init", "done"}
    /\ \E addrs \in PollerAddrs, funcs \in PollerFuncs, bin \in BOOLEAN :
        \E ext \in SUBSET Range(addrs) :
            poller' = [pc |-> IF (bin /\ ext = {}) \/ pairs(addrs, funcs) = <<>>
                              THEN "done" ELSE "test",
                       bin |-> bin, addrs |-> addrs, funcs |-> funcs, ext |-> ext,
                       idx |-> 0, stop |-> FALSE, hist |-> <<>>,
                       msg |-> IF (bin /\ ext = {}) \/ pairs(addrs, funcs) = <<>>
                               THEN "status" ELSE "none"]
    /\ NIFrame /\ ApiFrame /\ DaqFrame /\ GuiFrame /\ LibFrame
    /\ BackendFrame /\ AddrFrame /\ CaptureFrame

\* the loop test, the choice of the pair and the start of its cycle; hist
\* keeps the cycles issued, as <<position in pairs, a, f>>, over the last
\* len(pairs) + 1 cycles
PollerTest ==
    /\ poller.pc = "test"
    /\ LET ps == pairs(poller.addrs, poller.funcs)
           af == ps[poller.idx + 1]
       IN  poller' =
             IF poller.stop THEN [poller EXCEPT !.pc = "done"]
             ELSE IF af[1] \notin poller.ext
             THEN [poller EXCEPT !.idx = (poller.idx + 1) % Len(ps), !.pc = "sleep"]
             ELSE [poller EXCEPT !.idx = (poller.idx + 1) % Len(ps), !.pc = "cfsa",
                                 !.hist = LastN(Append(poller.hist,
                                                       <<poller.idx + 1, af[1], af[2]>>),
                                                Len(ps) + 1)]
    /\ NIFrame /\ ApiFrame /\ DaqFrame /\ GuiFrame /\ LibFrame
    /\ BackendFrame /\ AddrFrame /\ CaptureFrame

\* cam.cfsa returns (a sample is queued) or raises (a status is queued)
PollerCfsaReturn ==
    /\ poller.pc = "cfsa"
    /\ \E raised \in BOOLEAN :
          poller' = [poller EXCEPT !.pc = "sleep",
                                   !.msg = IF raised THEN "status" ELSE "sample"]
    /\ NIFrame /\ ApiFrame /\ DaqFrame /\ GuiFrame /\ LibFrame
    /\ BackendFrame /\ AddrFrame /\ CaptureFrame

PollerSleepReturn ==
    /\ poller.pc = "sleep"
    /\ poller' = [poller EXCEPT !.pc = "test"]
    /\ NIFrame /\ ApiFrame /\ DaqFrame /\ GuiFrame /\ LibFrame
    /\ BackendFrame /\ AddrFrame /\ CaptureFrame

\* the GUI sets the stop event
PollerStopSet ==
    /\ poller.pc \in {"test", "cfsa", "sleep"} /\ ~poller.stop
    /\ poller' = [poller EXCEPT !.stop = TRUE]
    /\ NIFrame /\ ApiFrame /\ DaqFrame /\ GuiFrame /\ LibFrame
    /\ BackendFrame /\ AddrFrame /\ CaptureFrame

PollerNext ==
    \/ MultiPollerStart
    \/ PollerTest
    \/ PollerCfsaReturn
    \/ PollerSleepReturn
    \/ PollerStopSet

SimNext == MockSetDebug \/ MockSetBranch \/ MockCfsa \/ Visa3988Cfsa

CodecNext == PackUnpack

Init ==
    /\ NIInit /\ ApiInit /\ DaqInit /\ GuiInit /\ LibInit
    /\ AddrInit /\ BackendInit /\ CaptureInit /\ PollerInit

Next == NINext

\* CamacBackendNI driven by any sequence of cycles and crate-control calls
Spec == Init /\ [][Next]_vars

\* two CamacMock instances and a CamacVisa3988 driven by any sequence of calls
SpecSim == Init /\ [][SimNext]_vars

\* pack_ext / unpack_ext applied to drawn arguments
SpecCodec == Init /\ [][CodecNext]_vars

\* DAQSystem.load_cfg_text applied to any sequence of configuration texts
SpecCfg == Init /\ [][CfgNext]_vars

\* a DAQSystem over the simulator: loads, reads and writes by module name
SpecDaq == Init /\ [][DaqNext]_vars

\* the GUI's Start / Stop handlers beside the poller threads they start
SpecGui == Init /\ [][GuiNext]_vars

\* CamacLib constructed on any platform with any set of loadable files
SpecLib == Init /\ [][LibNext]_vars

\* a GUI poller resolving and polling a module on each selectable backend
SpecAddr == Init /\ [][AddrNext]_vars

\* CamacBackend constructed in any mode, with any outcome of the driver load
SpecBackend == Init /\ [][BackendNext]_vars

\* capture.py sampling through daq.py read
SpecCapture == Init /\ [][CaptureNext]_vars

\* one MultiPoller from construction through its loop to the stop event
SpecPoll == Init /\ [][PollerNext]_vars

\* =================================================================== claims
\* an attempt failed when its write raised or it never got to the status read
AttSucceeded(att) == att.wok /\ att.reads # <<>> /\ att.reads[Len(att.reads)] = "status1"
NICalled == ni_call.op # "init"
NIWrites == Len(ni_call.attempts)
F_VALID == 0 .. 31

\* C1: probe locking. Unresolved: the candidates are tried in list order, one
\* transport write each, stopping at the first that succeeds; when candidate k
\* is the first to succeed the call made exactly k writes and the backend is
\* Locked(k). Locked(k): the call makes exactly one write, with candidate k.
C1_ProbeLocking ==
    NICalled =>
        /\ ni_call.pre = 0 =>
             /\ NIWrites \in 1 .. NumCandidates
             /\ \A i \in 1 .. NIWrites :
                  /\ ni_call.attempts[i].cand = i
                  /\ i < NIWrites => ~AttSucceeded(ni_call.attempts[i])
             /\ AttSucceeded(ni_call.attempts[NIWrites]) => naf_encoder = NIWrites
        /\ ni_call.pre # 0 =>
             /\ NIWrites = 1
             /\ ni_call.attempts[1].cand = ni_call.pre
             /\ naf_encoder = ni_call.pre

\* a read cycle in Unresolved state locked candidate 3 after exactly 3 writes
C1_Witness ==
    /\ ni_call.op = "cfsa" /\ ni_call.f = 0 /\ ni_call.pre = 0
    /\ NIWrites = 3 /\ AttSucceeded(ni_call.attempts[3])
    /\ naf_encoder = 3

\* C2: ProbeState only moves forward: once the cached encoder is Locked(c),
\* every later step leaves it Locked(c).
C2_LockForward == [][naf_encoder # 0 => naf_encoder' = naf_encoder]_vars

\* a crate-control call made while Locked(2) that left the backend Locked(2)
C2_Witness ==
    /\ ni_call.op \in {"cccc", "cccz", "ccci", "clear_lam", "test_lam"}
    /\ ni_call.pre = 2 /\ naf_encoder = 2 /\ ni_call.won = 2

\* C3: all-candidates-fail safety: when every candidate attempted fails, the
\* call does not raise and returns (Q, X, data) = (0, 0, 0) for a read cycle
\* (function 0..7) and (0, 0, absent) for a write or control cycle.
C3_AllFailResult ==
    (NICalled /\ ni_call.won = 0 /\ ni_call.f \in F_VALID) =>
        /\ ~ni_call.raised
        /\ ni_call.ret = IF ni_call.f \in 0 .. 7 THEN <<0, 0, 0>> ELSE <<0, 0, None>>

\* C4: no automatic re-probe: in Locked(c), when the attempt with c fails the
\* call tries no other candidate (at most one write), returns Q = X = 0 and
\* the backend is still Locked(c).
C4_NoReprobe ==
    (NICalled /\ ni_call.pre # 0 /\ ni_call.won = 0) =>
        /\ NIWrites <= 1
        /\ \A i \in 1 .. NIWrites : ni_call.attempts[i].cand = ni_call.pre
        /\ ni_call.ret[1] = 0 /\ ni_call.ret[2] = 0
        /\ naf_encoder = ni_call.pre

\* Locked(3), the data never arrived: one write, the all-failed result, still Locked(3)
C4_Witness ==
    /\ NICalled /\ ni_call.pre = 3 /\ ni_call.won = 0
    /\ NIWrites = 1 /\ ni_call.attempts[1].reads = <<"data3", "more1">>
    /\ ni_call.ret = <<0, 0, 0>> /\ naf_encoder = 3

\* C5: status-only override: a call whose function code is in the status-only
\* set at the time of the call issues no data-phase read: each candidate
\* attempted does at most the single status-byte read, Unresolved or Locked.
C5_StatusOnlyNoDataRead ==
    (NICalled /\ ni_call.f \in ni_call.ovr) =>
        \A i \in 1 .. NIWrites : ni_call.attempts[i].reads \in {<<>>, <<"status1">>}

\* function 9 (below 16) in the override set, Locked: only the status byte is read
C5_Witness ==
    /\ NICalled /\ ni_call.f = 9 /\ 9 \in ni_call.ovr /\ IsRead(ni_call.f)
    /\ ni_call.pre # 0 /\ NIWrites = 1
    /\ ni_call.attempts[1].reads = <<"status1">>

\* C6: invalid function codes are rejected: a cfsa call of CamacMock or
\* CamacVisa3988 with a function code outside 0..31 fails with
\* InvalidFunctionCode instead of returning a cycle result.
C6_InvalidFunctionRejected ==
    (api_call.op \in {"cfsa", "visa_cfsa"} /\ api_call.args[1] \notin F_VALID) =>
        api_call.raised = "InvalidFunctionCode"

\* C7: function classification is a partition of 0..31: every code is in
\* exactly one of Read (0..7), Write (16..23), Control (8..15, 24..31), and
\* the union of the three sets is 0..31.
C7_FunctionPartition ==
    (api_call.op = "cfsa" /\ api_call.args[1] \in F_VALID) =>
        LET f == api_call.args[1]
            member == <<f \in READ_FUNCS, f \in WRITE_FUNCS, f \in CTRL_FUNCS>>
        IN  /\ Cardinality({k \in 1 .. 3 : member[k]}) = 1
            /\ member[1] <=> f \in 0 .. 7
            /\ member[2] <=> f \in 16 .. 23
            /\ member[3] <=> f \in (8 .. 15) \cup (24 .. 31)
            /\ api_call.ret[3] = (IF member[1] THEN "Read"
                                  ELSE IF member[2] THEN "Write" ELSE "Control")
            /\ READ_FUNCS \cup WRITE_FUNCS \cup CTRL_FUNCS = F_VALID

\* a code of the upper control range went down the simulator's Control branch
C7_Witness ==
    /\ api_call.op = "cfsa" /\ api_call.args[1] = 24
    /\ api_call.ret[3] = "Control"

\* C8: packing bijection: for byte-range fields unpack_ext(pack_ext(b,c,n,a))
\* is (b,c,n,a); pack_ext always yields a handle, and fields outside the byte
\* range are masked: pack_ext(b,c,n,a) = pack_ext(b % 256, c % 256, n % 256, a % 256).
C8_PackBijection ==
    api_call.op = "pack" =>
        LET b == api_call.args[1]
            c == api_call.args[2]
            n == api_call.args[3]
            a == api_call.args[4]
            h == api_call.ret[1]
        IN  /\ (\A k \in 1 .. 4 : api_call.args[k] \in 0 .. 255) => api_call.ret[2] = api_call.args
            /\ h = (b % 256) * 16777216 + (c % 256) * 65536 + (n % 256) * 256 + (a % 256)
            /\ h = pack_ext(b % 256, c % 256, n % 256, a % 256)
            /\ api_call.ret[2] = <<b % 256, c % 256, n % 256, a % 256>>

\* a station outside the byte range was masked, and a byte-range tuple came back
C8_Witness ==
    /\ api_call.op = "pack" /\ api_call.args = <<127, 255, 259, 0>>
    /\ api_call.ret[2] = <<127, 255, 3, 0>>

\* C9: simulator results, functions 0..31: Q is true and data is
\* (handle & 0xFFFFFF) xor (function << 12) for Read, the supplied value (0
\* when none) for Write, 0 for Control.
C9_SimulatorResults ==
    (api_call.op = "cfsa" /\ api_call.args[1] \in F_VALID) =>
        LET f    == api_call.args[1]
            ext  == api_call.args[2]
            data == api_call.args[3]
        IN  api_call.ret[1] =
              IF f \in 0 .. 7 THEN <<BitXor(ext % 16777216, f * 4096), TRUE>>
              ELSE IF f \in 16 .. 23 THEN <<IF data = None THEN 0 ELSE data, TRUE>>
              ELSE <<0, TRUE>>

\* a read with a non-zero function code: the xor changed the handle's low bits
C9_Witness ==
    /\ api_call.op = "cfsa" /\ api_call.args[1] = 3
    /\ api_call.ret[1][2] = TRUE
    /\ api_call.ret[1][1] # api_call.args[2] % 16777216

\* C10: simulator determinism and non-interference: the same cfsa call made
\* on two simulator instances with whatever debug level, branch and history
\* gives the same result, and cfsa leaves the simulator's state unchanged.
C10_SimDeterminism ==
    api_call.op = "cfsa" =>
        /\ api_call.ret[1] = api_call.ret[2]
        /\ mock = api_call.pre

\* the two instances differ in debug level and in branch, the results agree
C10_Witness ==
    /\ api_call.op = "cfsa" /\ api_call.args[1] \in READ_FUNCS
    /\ mock[1].debug # mock[2].debug /\ mock[1].branch # mock[2].branch
    /\ api_call.ret[1] = api_call.ret[2]

\* ----------------------------------------------------------- registry
\* the valid lines of a text and the names they define
EntryLines(ix) == {i \in 1..Len(ix) : AllLines[ix[i]].kind = "entry"}
ExpectedKeys(ix) == {AllLines[ix[i]].key : i \in EntryLines(ix)}
Loaded == cfg_text.loaded /\ daq_call.op = "load_cfg_text"

\* C11: after any sequence of load_cfg_text calls the module set is exactly
\* the set of entries of the most recent text: its keys are the names of that
\* text's entry lines, so no entry of an earlier text survives unless the
\* latest text defines it too, and loading the same text again leaves the
\* module set as it was.
C11_RegistryReload ==
    [][cfg_text' # cfg_text
         => /\ DOMAIN modules' = ExpectedKeys(cfg_text'.lines)
            /\ modules' = parse_cit_cfg(cfg_text'.text)
            /\ (cfg_text'.again => modules' = modules)]_vars
\* a reload that drops an entry of the text loaded before
C11_Witness ==
    /\ Loaded
    /\ \E k \in daq_call.pre : k \notin DOMAIN modules
    /\ modules # <<>>
\* the same text loaded twice in a row
C11_WitnessAgain == Loaded /\ cfg_text.again /\ modules # <<>>

\* the last line of a text that defines key k
LastLineOf(ix, k) ==
    AllLines[ix[CHOOSE i \in EntryLines(ix) :
                    /\ AllLines[ix[i]].key = k
                    /\ \A j \in EntryLines(ix) : AllLines[ix[j]].key = k => j <= i]]
\* the text without the lines that are no entries
RECURSIVE OnlyEntries(_)
OnlyEntries(ix) ==
    IF ix = <<>> THEN <<>>
    ELSE IF AllLines[Head(ix)].kind = "entry" THEN <<Head(ix)>> \o OnlyEntries(Tail(ix))
    ELSE OnlyEntries(Tail(ix))
HasKind(ix, kinds) == \E i \in 1..Len(ix) : AllLines[ix[i]].kind \in kinds

\* C12: parsing never fails; the result holds exactly one entry per distinct
\* name among the valid lines, with the name as written and the integer
\* branch, crate and station of a valid line of that name; blank lines,
\* comment lines (# * ! ;), lines of fewer than 4 fields and lines with a
\* non-integer branch/crate/station add nothing and leave the entries of the
\* other lines as they are without them.
C12_MalformedLineTolerance ==
    Loaded =>
        /\ daq_call.raised = "none"
        /\ DOMAIN modules = ExpectedKeys(cfg_text.lines)
        /\ \A k \in DOMAIN modules :
              \E i \in EntryLines(cfg_text.lines) :
                 LET l == AllLines[cfg_text.lines[i]]
                 IN  /\ l.key = k /\ modules[k].name = l.name
                     /\ modules[k].branch = l.branch
                     /\ modules[k].crate = l.crate
                     /\ modules[k].station = l.station
        /\ modules = parse_cit_cfg(TextOf(OnlyEntries(cfg_text.lines)))
\* a text with a valid line after a line with a non-integer field
C12_Witness ==
    /\ Loaded
    /\ Len(cfg_text.lines) >= 2
    /\ AllLines[cfg_text.lines[1]].kind = "nonint"
    /\ AllLines[cfg_text.lines[2]].kind = "entry"
    /\ modules # <<>>

\* C13: a line whose fields NAME BRANCH CRATE STATION are separated by commas
\* is accepted and yields the entry of the same line written with blanks.
C13_CommaSeparated ==
    Loaded =>
        \A i \in 1..Len(cfg_text.lines) :
            LET l == AllLines[cfg_text.lines[i]]
            IN  l.kind = "comma" =>
                    /\ l.key \in DOMAIN modules
                    /\ modules[l.key].branch = l.branch
                    /\ modules[l.key].crate = l.crate
                    /\ modules[l.key].station = l.station

\* the module a spelling names: its letters in upper case, written out
KeyOf(name) ==
    CASE name \in {<<"Q", "V">>, <<"q", "v">>, <<"Q", "v">>, <<"q", "V">>} -> <<"Q", "V">>
      [] name = <<"g", "E">> -> <<"G", "E">>
      [] OTHER -> name
ByName == daq_call.op \in {"camac_read", "camac_write"}
Known == KeyOf(daq_call.name) \in ExpectedKeys(cfg_text.lines)
\* the cdreg call DAQSystem owes the backend for the resolved name
CdregOwed ==
    LET l == LastLineOf(cfg_text.lines, KeyOf(daq_call.name))
    IN  <<"cdreg", l.branch, l.crate, l.station, daq_call.address>>

\* C14: after a load, spellings that differ only in letter case name one
\* module: the registry holds one entry per name ignoring case, that entry has
\* the branch, crate and station of the last line defining the name, and
\* resolving the name in any letter case builds the handle from that last line.
C14_CaseInsensitiveNames ==
    /\ cfg_text.loaded =>
          /\ DOMAIN modules = ExpectedKeys(cfg_text.lines)
          /\ \A k \in DOMAIN modules :
                LET l == LastLineOf(cfg_text.lines, k)
                IN  <<modules[k].branch, modules[k].crate, modules[k].station>>
                        = <<l.branch, l.crate, l.station>>
    /\ (ByName /\ Known) =>
          /\ daq_call.raised = "none"
          /\ daq_call.backend[1] = CdregOwed
          /\ daq_call.backend[2][3] = pack_ext(CdregOwed[2], CdregOwed[3], CdregOwed[4],
                                               daq_call.address)
\* a name defined twice in different letter case, resolved in a third spelling
C14_Witness ==
    /\ ByName /\ Known
    /\ daq_call.name = <<"q", "V">>
    /\ cfg_text.lines = <<1, 2>>
    /\ daq_call.backend[1][2] = 2

\* C15: camac_read / camac_write by a name that is not in the registry
\* (ignoring case) fails with KeyError "Unknown module name", calls neither
\* cdreg nor cfsa on the backend and leaves the registry as it was; a following
\* read or write by a known name succeeds.
C15_UnknownModule ==
    [][/\ (daq_call'.op \in {"camac_read", "camac_write"}
              /\ KeyOf(daq_call'.name) \notin ExpectedKeys(cfg_text.lines))
          => /\ daq_call'.raised = "KeyError"
             /\ daq_call'.backend = <<>>
             /\ modules' = modules /\ modules' = daq_call'.pre
       /\ (daq_call.raised = "KeyError"
              /\ daq_call'.op \in {"camac_read", "camac_write"}
              /\ KeyOf(daq_call'.name) \in ExpectedKeys(cfg_text.lines))
          => /\ daq_call'.raised = "none"
             /\ Len(daq_call'.backend) = 2
             /\ daq_call'.ret[Len(daq_call'.ret)] = TRUE]_vars
\* a failed read by an unknown name while the registry holds modules
C15_Witness ==
    /\ ByName /\ ~Known
    /\ daq_call.raised = "KeyError"
    /\ modules # <<>>

\* C16: for a module loaded with fields (b, c, n), every spelling of its name,
\* subaddress a and read function f in 0..7, camac_read against the simulator
\* returns Q = true and data = (pack_ext(b,c,n,a) & 0xFFFFFF) xor (f << 12);
\* with the function omitted f = 0 is used.
C16_ReadByName ==
    (daq_call.op = "camac_read" /\ Known /\ daq_call.function \in (0..7) \cup {None}) =>
        LET f == IF daq_call.function = None THEN 0 ELSE daq_call.function
            h == pack_ext(CdregOwed[2], CdregOwed[3], CdregOwed[4], daq_call.address)
        IN  /\ daq_call.raised = "none"
            /\ daq_call.ret = <<BitXor(Mask(h, 24), Shl(f, 12)), TRUE>>
\* the smoke test's read with the function omitted, and a read with f = 7
C16_Witness ==
    /\ daq_call.op = "camac_read" /\ Known
    /\ daq_call.function = None
    /\ daq_call.backend[1] = <<"cdreg", 1, 1, 2, 0>>
    /\ daq_call.ret = <<Mask(pack_ext(1, 1, 2, 0), 24), TRUE>>
C16_WitnessF7 ==
    /\ daq_call.op = "camac_read" /\ Known
    /\ daq_call.function = 7 /\ daq_call.address = 255

\* ----------------------------------------------------------------- GUI
\* C17: under every interleaving of Start and Stop with the pollers, at no
\* time are two cfsa calls on the backend in progress.
C17_SingleInFlight ==
    Cardinality({t \in DOMAIN threads : InCfsa(t)}) <= 1

\* ------------------------------------------------------------- CamacLib
LibCalled == lib_call.raised # "init"
NoPathGiven == lib_call.lib_path = "" /\ lib_call.env = ""
\* position of the first default name that loads, 0 if none does
FirstLoadable ==
    LET d == default_names(lib_call.platform)
    IN  IF \E i \in 1..Len(d) : d[i] \in lib_call.loadable
        THEN CHOOSE i \in 1..Len(d) :
                /\ d[i] \in lib_call.loadable
                /\ \A j \in 1..(i - 1) : d[j] \notin lib_call.loadable
        ELSE 0

\* C18: with no path given (neither the argument nor CAMAC_LIB) the platform's
\* default names are tried in their listed order; the first that loads is
\* used and no later name is tried; if none loads, construction fails with
\* CamacLibError naming the names tried and no object is produced.
C18_DriverLoadingOrder ==
    (LibCalled /\ NoPathGiven) =>
        LET d == default_names(lib_call.platform)
        IN  IF FirstLoadable = 0
            THEN /\ lib_call.attempts = d
                 /\ lib_call.raised = "CamacLibError"
                 /\ lib_call.tried = d
                 /\ lib_call.lib = ""
            ELSE /\ lib_call.attempts = SubSeq(d, 1, FirstLoadable)
                 /\ lib_call.lib = d[FirstLoadable]
                 /\ lib_call.raised # "CamacLibError"
\* the second of three names loads while the third would load too
C18_Witness ==
    /\ LibCalled /\ NoPathGiven
    /\ lib_call.platform = "win32"
    /\ lib_call.loadable = {"camac_gpib.dll", "camac.dll"}
    /\ lib_call.lib = "camac_gpib.dll"
    /\ lib_call.raised = "none"
\* no default name loads
C18_WitnessNone ==
    /\ LibCalled /\ NoPathGiven
    /\ lib_call.loadable = {}
    /\ lib_call.raised = "CamacLibError"

\* ------------------------------------------------- CamacBackendNI, again
\* C19: the cached encoder is the only persistent state that matters: a cfsa
\* call behaves as the same call on a backend with the same cached encoder on
\* which no crate operation was ever performed (its override set is as
\* constructed) and whose transport behaves the same: it sends the same bytes,
\* issues the same reads and returns the same result.
C19_OnlyProbeState ==
    ni_call.op \in {"cfsa", "test_lam"} =>
        \E r \in ni_cfsa(ni_call.pre, {}, ni_call.f, ni_call.ext, ni_call.data) :
            /\ r.attempts = ni_call.attempts
            /\ r.ret = ni_call.ret

\* C20: a data read is requested from the transport only when the function
\* code is a Read code (0..7) and not in the status-only set; Control codes
\* (8..15, 24..31) and Write codes (16..23) never request one.
C20_DataReadOnlyForRead ==
    NICalled =>
        \A i \in 1 .. NIWrites :
            (\E j \in 1 .. Len(ni_call.attempts[i].reads) :
                 ni_call.attempts[i].reads[j] \in {"data3", "more1"})
                => (ni_call.f \in 0 .. 7 /\ ni_call.f \notin ni_call.ovr)

\* ------------------------------------------ CamacBackendNI: the sweep
CmdBytes(i) ==
    Encode(ni_call.attempts[i].cand, ni_call.ext[1], ni_call.ext[2], ni_call.f,
           ni_call.data, ni_call.is_read)

\* C21: the bytes sent for a candidate are its command bytes followed by the
\* data word as 3 big-endian bytes exactly when the function is a write
\* function (16..23); for read and control functions the command bytes only.
C21_PayloadOnlyOnWrites ==
    (NICalled /\ ni_call.f \in F_VALID) =>
        \A i \in 1 .. NIWrites :
            ni_call.attempts[i].sent =
                IF ni_call.f \in 16 .. 23 THEN CmdBytes(i) \o Bytes3BE(ni_call.data)
                ELSE CmdBytes(i)

\* C22: the cached encoder becomes candidate c only in a call in which the
\* transport delivered a complete data word (3 bytes) for candidate c; a call
\* that received no data never turns Unresolved into Locked.
C22_CachedOnlyWithData ==
    (NICalled /\ ni_call.pre = 0 /\ naf_encoder # 0) =>
        /\ ni_call.attempts[NIWrites].cand = naf_encoder
        /\ ni_call.attempts[NIWrites].reads[1] = "data3"
        /\ ni_call.ret[3] # None

\* C23: every cfsa call ends after trying each candidate at most once, in list
\* order: Unresolved at most 4 writes, Locked at most 1, one write per attempt
\* and at most 3 reads per candidate.
C23_BoundedSweep ==
    NICalled =>
        /\ NIWrites <= (IF ni_call.pre = 0 THEN NumCandidates ELSE 1)
        /\ \A i \in 1 .. NIWrites, j \in 1 .. NIWrites :
              i < j => ni_call.attempts[i].cand < ni_call.attempts[j].cand
        /\ \A i \in 1 .. NIWrites :
              /\ Len(ni_call.attempts[i].reads) <= 3
              /\ ~ni_call.attempts[i].wok => ni_call.attempts[i].reads = <<>>
\* a full sweep whose fourth candidate needed all three reads
C23_Witness ==
    /\ NICalled /\ ni_call.pre = 0 /\ NIWrites = 4
    /\ ni_call.attempts[4].reads = <<"data3", "more1", "status1">>
    /\ ni_call.attempts[1].reads = <<"data3", "more1">>
\* a Locked call with its one write and three reads
C23_WitnessLocked ==
    /\ NICalled /\ ni_call.pre # 0 /\ NIWrites = 1
    /\ Len(ni_call.attempts[1].reads) = 3

\* C25: the four candidates of the probe list produce four pairwise different
\* byte sequences, so a later candidate of a sweep sends something the earlier
\* ones did not.
C25_CandidatesDistinct ==
    NICalled =>
        \A i \in 1 .. NIWrites, j \in 1 .. NIWrites :
            i # j => ni_call.attempts[i].sent # ni_call.attempts[j].sent

\* C28: a call made Unresolved in which every candidate fails leaves the
\* backend Unresolved, and the next call sweeps the list again from the first
\* candidate: all four when it fails too.
C28_FailedProbeStaysUnresolved ==
    [][/\ (ni_call'.op # "init" /\ ni_call'.pre = 0 /\ ni_call'.won = 0)
            => (naf_encoder' = 0 /\ Len(ni_call'.attempts) = NumCandidates)
       /\ (NICalled /\ ni_call.pre = 0 /\ ni_call.won = 0)
            => /\ ni_call'.pre = 0
               /\ ni_call'.attempts[1].cand = 1
               /\ \A i \in 1 .. Len(ni_call'.attempts) : ni_call'.attempts[i].cand = i
               /\ (ni_call'.won = 0 => Len(ni_call'.attempts) = NumCandidates)]_vars
\* a failed sweep followed by a sweep that locks the second candidate
C28_Witness ==
    /\ NICalled /\ ni_call.pre = 0 /\ ni_call.won = 2 /\ NIWrites = 2
    /\ naf_encoder = 2
\* every candidate failed and the backend is still Unresolved
C28_WitnessFailed ==
    /\ NICalled /\ ni_call.pre = 0 /\ ni_call.won = 0 /\ NIWrites = 4
    /\ naf_encoder = 0

\* ------------------------------------------------------ GUI addressing
\* C24: when the poller polls a module configured as (b, c, n) at subaddress
\* a, the handle from cam.cdreg(b, c, n, a) makes the cfsa cycle address
\* station n and subaddress a, on every backend the GUI can select.
C24_AddressingPreserved ==
    addr_call.op = "poll" =>
        /\ addr_call.station = addr_call.bcn[3]
        /\ addr_call.subaddress = addr_call.a

\* ---------------------------------------------------- backend selection
\* C30: CamacBackend construction either raises or ends with impl set; in
\* mode 'auto' a driver load failure (CamacLibError) is not surfaced and the
\* simulator is used, in mode 'real' it is surfaced, in mode 'mock' the
\* simulator is always used, and every mode string other than 'mock', 'visa',
\* 'real' and 'auto' is rejected with an error.
C30_ImplNeverUnset ==
    backend.op = "CamacBackend" =>
        /\ (backend.raised = "none") = (backend.impl # "")
        /\ (backend.mode = "auto" /\ backend.lib_raised = "CamacLibError")
              => (backend.raised = "none" /\ backend.impl = "CamacMock")
        /\ backend.mode = "auto" => backend.raised # "CamacLibError"
        /\ (backend.mode = "real" /\ backend.lib_raised = "CamacLibError")
              => backend.raised = "CamacLibError"
        /\ backend.mode = "mock" => (backend.raised = "none" /\ backend.impl = "CamacMock")
        /\ backend.mode \notin {"mock", "visa", "real", "auto"}
              => backend.raised = "ValueError"
\* mode 'auto' with no loadable library falls back to the simulator
C30_Witness ==
    /\ backend.op = "CamacBackend" /\ backend.mode = "auto"
    /\ backend.loadable = {} /\ backend.lib_raised = "CamacLibError"
    /\ backend.impl = "CamacMock"

\* ------------------------------------------------------------- capture
\* C27: for every sample whose daq.py read subprocess exits with status 0,
\* capture.py writes the integer that was read into the CSV row; the value is
\* blank only when the read itself failed.
C27_CaptureRecordsReads ==
    capture.op = "sample" =>
        /\ capture.returncode = 0 => capture.value = capture.data
        /\ capture.value = <<>> => capture.returncode # 0

\* ---------------------------------------------------------- round robin
NumPairs == Len(poller.addrs) * Len(poller.funcs)
\* the (A, F) pair at position p of the order "addresses outer, functions inner"
PairAt(p) ==
    <<poller.addrs[((p - 1) \div Len(poller.funcs)) + 1],
      poller.funcs[((p - 1) % Len(poller.funcs)) + 1]>>
ResolvedPositions == {p \in 1..NumPairs : PairAt(p)[1] \in poller.ext}
ResolvedPairs == {PairAt(p) : p \in ResolvedPositions}
\* the first resolved position after p, going round
NextResolved(p) ==
    CHOOSE q \in ResolvedPositions :
        \A r \in ResolvedPositions :
            ((q - p - 1 + NumPairs) % NumPairs) <= ((r - p - 1 + NumPairs) % NumPairs)
\* in the sequence h of keys, between two consecutive occurrences of one key
\* every other key of K occurs exactly once
Rounds(h, K) ==
    \A i, j \in DOMAIN h :
        (i < j /\ h[i] = h[j] /\ \A k \in (i + 1)..(j - 1) : h[k] # h[i])
            => \A key \in K \ {h[i]} :
                  Cardinality({k \in (i + 1)..(j - 1) : h[k] = key}) = 1
HistPositions == [k \in DOMAIN poller.hist |-> poller.hist[k][1]]
HistPairs == [k \in DOMAIN poller.hist |-> <<poller.hist[k][2], poller.hist[k][3]>>]

\* C26 as stated: the cycles go round the (A, F) pairs, and between two
\* consecutive cycles for the same (A, F) pair every other pair with a
\* resolved handle is polled exactly once. Fails when the address list names
\* an address twice.
C26_RoundRobinPairs ==
    Rounds(HistPairs, ResolvedPairs)

\* C26, amended: the cycles follow the positions of the list "addresses
\* outer, functions inner" in cyclic order, skipping the positions whose
\* address has no handle, so that between two consecutive cycles for one
\* position every other resolved position is polled exactly once; a cycle
\* that raises queues a status and the poller goes on to its sleep with the
\* order untouched.
C26_RoundRobinPositions ==
    /\ [](/\ \A k \in DOMAIN poller.hist :
                /\ poller.hist[k][1] \in ResolvedPositions
                /\ <<poller.hist[k][2], poller.hist[k][3]>> = PairAt(poller.hist[k][1])
          /\ \A k \in 1..(Len(poller.hist) - 1) :
                poller.hist[k + 1][1] = NextResolved(poller.hist[k][1])
          /\ Rounds(HistPositions, ResolvedPositions))
    /\ [][poller.pc = "cfsa" =>
            /\ poller'.pc \in {"cfsa", "sleep"}
            /\ poller'.idx = poller.idx /\ poller'.hist = poller.hist
            /\ poller'.msg \in {poller.msg, "status", "sample"}]_vars
\* a full round with one address skipped, the first position polled again
\* after a cycle that raised
C26_Witness ==
    /\ poller.pc = "cfsa" /\ poller.msg = "status"
    /\ poller.addrs = <<1, 0, 2>> /\ poller.funcs = <<0, 2>> /\ poller.ext = {1, 2}
    /\ Len(poller.hist) = 5 /\ poller.hist[1] = poller.hist[5]
    /\ poller.hist[3] = <<5, 2, 0>>

\* ------------------------------------------------------ stopped pollers
\* C29: once a Stop has set the stop event for a running MultiPoller, that
\* thread issues no further backend cycle, whatever the GUI does afterwards
\* (a Start pressed after the join has timed out included).
C29_StoppedStaysStopped ==
    [][\A t \in DOMAIN threads :
          (threads[t].told /\ threads[t].pc # "cfsa") => threads'[t].pc # "cfsa"]_vars

====
